---- MODULE Spec2Model ----
(***************************************************************************)
(* Model of the personal-library catalog of src/main.py: the in-memory     *)
(* STORES (books, users, reviews, tokens), the id counters, the            *)
(* EventSubject, the LibraryFacade and the request handlers that call it.  *)
(*                                                                         *)
(* Strings that the code inspects character by character (lower(),        *)
(* strip(), substring search, length) are sequences of one-character       *)
(* strings.  Optional[X] is a sequence of length 0 (None) or 1 (Some(x)). *)
(***************************************************************************)
EXTENDS Integers, Sequences, FiniteSets, TLC

VARIABLES
  books,          \* STORES["books"]: list of book dicts
  users,          \* STORES["users"]: list of user dicts
  reviews,        \* STORES["reviews"]: dict str(book id) -> list of reviews
  tokens,         \* STORES["tokens"]: dict token -> user id
  _next_book_id,  \* module global counter
  _next_user_id,  \* module global counter
  resp,           \* the last request served one at a time: what answered it, and the HTTP status
  notified,       \* observer calls made while serving that request (by the last notify, when concurrent)
  issued,         \* history: the ids add_book has returned, in call order
  pc,             \* concurrent handlers: position of each worker thread
  loc             \* concurrent handlers: local variables of each worker thread

vars == <<books, users, reviews, tokens, _next_book_id, _next_user_id,
          resp, notified, issued, pc, loc>>

store == <<books, users, reviews, tokens, _next_book_id, _next_user_id, issued>>

conc == <<pc, loc>>

----
\* Bounds of the model

MaxNewBooks == 2

MaxNewUsers == 1

MaxTokens == 2

MaxReviews == 1

----
\* Optional values

None == <<>>

Some(x) == <<x>>

----
\* Strings

UpperChars ==
  <<"A","B","C","D","E","F","G","H","I","J","K","L","M","N","O","P","Q","R",
    "S","T","U","V","W","X","Y","Z","Á","É","Í","Ó","Ú","Ñ">>

LowerChars ==
  <<"a","b","c","d","e","f","g","h","i","j","k","l","m","n","o","p","q","r",
    "s","t","u","v","w","x","y","z","á","é","í","ó","ú","ñ">>

UpperSet == {UpperChars[i] : i \in DOMAIN UpperChars}

LowerTable ==
  [c \in UpperSet |-> LowerChars[CHOOSE i \in DOMAIN UpperChars : UpperChars[i] = c]]

LowerChar(c) == IF c \in UpperSet THEN LowerTable[c] ELSE c

\* str.lower()
lower(s) == [i \in DOMAIN s |-> LowerChar(s[i])]

Whitespace == {" ", "\t", "\n", "\r"}

\* str.strip()
strip(s) ==
  LET keep == {i \in DOMAIN s : s[i] \notin Whitespace} IN
  IF keep = {} THEN <<>>
  ELSE LET lo == CHOOSE i \in keep : \A j \in keep : i <= j
           hi == CHOOSE i \in keep : \A j \in keep : j <= i
       IN SubSeq(s, lo, hi)

\* str(libro_id)
str(n) == ToString(n)

----
\* Seeded data

initial_books ==
  <<
     [titulo    |-> <<"C","i","e","n"," ","A","ñ","o","s"," ","d","e"," ","S","o","l","e","d","a","d">>,
      autor     |-> <<"G","a","b","r","i","e","l"," ","G","a","r","c","í","a"," ","M","á","r","q","u","e","z">>,
      categoria |-> <<"N","o","v","e","l","a">>,
      contenido |-> <<"M","u","c","h","o","s"," ","a","ñ","o","s"," ">>],
     [titulo    |-> <<"E","l"," ","l","i","b","r","o"," ","t","r","o","l","l">>,
      autor     |-> <<"e","l"," ","r","u","b","i","u","s">>,
      categoria |-> <<"H","i","s","t","o","r","i","c","o">>,
      contenido |-> <<"E","n"," ","u","n"," ","m","u","n","d","o"," ">>],
     [titulo    |-> <<"1","9","8","4">>,
      autor     |-> <<"G","e","o","r","g","e"," ","O","r","w","e","l","l">>,
      categoria |-> <<"D","i","s","t","o","p","í","a">>,
      contenido |-> <<"E","r","a"," ","u","n"," ","d","í","a"," ","f">>],
     [titulo    |-> <<"D","o","n"," ","Q","u","i","j","o","t","e"," ","d","e"," ","l","a"," ","M","a","n","c","h","a">>,
      autor     |-> <<"M","i","g","u","e","l"," ","d","e"," ","C","e","r","v","a","n","t","e","s">>,
      categoria |-> <<"C","l","á","s","i","c","o">>,
      contenido |-> <<"E","n"," ","u","n"," ","l","u","g","a","r"," ">>],
     [titulo    |-> <<"L","a"," ","O","d","i","s","e","a">>,
      autor     |-> <<"H","o","m","e","r","o">>,
      categoria |-> <<"É","p","i","c","a">>,
      contenido |-> <<"H","á","b","l","a","m","e",","," ","M","u","s">>]
  >>

\* mutant: enumerate(initial_books) without start=1
SeedBooks_from_zero ==
  [i \in 1..Len(initial_books) |->
     [id        |-> i - 1,
      titulo    |-> initial_books[i].titulo,
      autor     |-> initial_books[i].autor,
      categoria |-> initial_books[i].categoria,
      contenido |-> initial_books[i].contenido]]

\* STORES["books"] after the seeding loop
SeedBooks ==
  [i \in 1..Len(initial_books) |->
     [id        |-> i,
      titulo    |-> initial_books[i].titulo,
      autor     |-> initial_books[i].autor,
      categoria |-> initial_books[i].categoria,
      contenido |-> initial_books[i].contenido]]

InitialNextBookId == 6

InitialNextUserId == 1

\* hashlib.sha256(...).hexdigest(): a deterministic, collision-free digest
_hash_password(clave) == <<"sha256", clave>>

AdminEmail ==
  <<"a","d","m","i","n","@","b","i","b","l","i","o","t","e","c","a",".","c","o","m">>

admin_default ==
  [id            |-> InitialNextUserId,
   nombre        |-> <<"A","d","m","i","n","i","s","t","r","a","d","o","r">>,
   email         |-> AdminEmail,
   password_hash |-> _hash_password("admin123"),
   rol           |-> "admin",
   biblioteca    |-> <<>>]

\* event_subject._observers after the two subscribe calls
_observers == <<"LogObserver", "EmailObserver">>

----
\* Request inputs

EmailAX == <<"a","@","x",".","c","o","m">>

EmailAXUpper == <<"A","@","X",".","C","O","M">>

EmailAdminUpper ==
  <<"A","D","M","I","N","@","B","i","b","l","i","o","t","e","c","a",".","c","o","m">>

\* emails offered to registrar_usuario
EmailInputs == {EmailAX, EmailAXUpper, EmailAdminUpper}

\* emails offered to login
LoginEmailInputs == {AdminEmail, EmailAXUpper}

\* passwords offered to login
ClaveInputs == {"admin123", "secreto1"}

\* passwords offered to registrar_usuario
NewClaveInputs == {"secreto1"}

RolInputs == {"usuario", "admin"}

NombreInputs == {<<"A","n","a">>}

\* every token value a client can present; Token(0) is never minted
Token(i) == "tok" \o ToString(i)

MintableTokens == {Token(i) : i \in 1..MaxTokens}

TokenInputs == MintableTokens \cup {Token(0)}

LibroIds == {1, InitialNextBookId}

BookCreateInputs ==
  {[titulo    |-> <<"D","u","n","e">>,
    autor     |-> <<"H","e","r","b","e","r","t">>,
    categoria |-> <<"N","O","V","E","L","A">>,
    contenido |-> <<"A","r","r","a","k","i","s",","," ","d","u","n","a","s">>]}

BookUpdateInputs ==
  {[titulo |-> Some(<<"X">>), autor |-> None, categoria |-> None, contenido |-> None]}

\* bodies of PUT /libros/{id} that give different fields, the empty string included
BookUpdateCampos ==
  BookUpdateInputs \cup
  {[titulo |-> None, autor |-> Some(<<"Y">>), categoria |-> None, contenido |-> Some(<<"W">>)],
   [titulo |-> Some(<<>>), autor |-> None, categoria |-> Some(<<>>), contenido |-> None]}

ReviewCreateInputs == {[texto |-> <<"G","r","e","a","t">>, cal |-> 5]}

\* bodies of POST /libros/{id}/reseñas before validation: two that
\* ReviewCreate accepts, at both ends of the range of cal, and three it refuses
ReviewBodies ==
  ReviewCreateInputs \cup
  {[texto |-> <<"o","k">>, cal |-> 1],
   [texto |-> <<>>, cal |-> 3],
   [texto |-> <<"b","a","d">>, cal |-> 0],
   [texto |-> <<"b","a","d">>, cal |-> 6]}

\* values of the categoria query parameter of GET /libros: absent, empty,
\* a category in another case, and the beginning of a category
CategoriaFiltros ==
  {None, Some(<<>>), Some(<<"n","o","v","e","l","a">>),
   Some(<<"É","P","I","C","A">>), Some(<<"N","o","v">>)}

\* values of the search query parameter: absent, empty, text found in
\* titles and authors in another case, and text found in one title only
SearchTextos ==
  {None, Some(<<>>), Some(<<"E","L">>), Some(<<"d","u","n">>)}

\* the worker threads that serve requests concurrently
Threads == {1, 2}

\* the locals of a thread that has served no request yet
NoLocals == [op |-> "none", payload |-> <<>>, val |-> 0, status |-> 0]

----
\* Initial state: the module has been imported

Init ==
  /\ books = SeedBooks
  /\ _next_book_id =
       IF Len(SeedBooks) >= InitialNextBookId
       THEN Len(SeedBooks) + 1 ELSE InitialNextBookId
  /\ users = <<admin_default>>
  /\ _next_user_id = InitialNextUserId + 1
  /\ reviews = <<>>
  /\ tokens = <<>>
  /\ resp = [op |-> "import", status |-> 0]
  /\ notified = <<>>
  /\ issued = <<>>
  /\ pc = [t \in Threads |-> "idle"]
  /\ loc = [t \in Threads |-> NoLocals]

----
\* Helpers of the code

First(S) == CHOOSE i \in S : \A j \in S : i <= j

\* EventSubject.notify: one update call per observer, in subscription order
notify(event, data) ==
  [i \in DOMAIN _observers |->
     [observer |-> _observers[i], event |-> event, data |-> data]]

\* LibraryFacade.get_book: the first book with that id, or None
get_book(libro_id) ==
  LET hits == {i \in DOMAIN books : books[i].id = libro_id} IN
  IF hits = {} THEN None ELSE Some(books[First(hits)])

\* mutant: the emails are compared as written
_get_user_by_email_exact(email) ==
  LET hits == {i \in DOMAIN users : users[i].email = email} IN
  IF hits = {} THEN None ELSE Some(users[First(hits)])

\* _get_user_by_email: the first user whose lowered email equals the lowered argument
_get_user_by_email(email) ==
  LET hits == {i \in DOMAIN users : lower(users[i].email) = lower(email)} IN
  IF hits = {} THEN None ELSE Some(users[First(hits)])

\* mutant: the password is not compared
authenticate_any_password(email, clave_plain) ==
  LET hits == {i \in DOMAIN users : lower(users[i].email) = lower(email)} IN
  IF hits = {} THEN None ELSE Some(users[First(hits)])

\* LibraryFacade.authenticate
authenticate(email, clave_plain) ==
  LET hits == {i \in DOMAIN users : lower(users[i].email) = lower(email)} IN
  IF hits = {} THEN None
  ELSE IF users[First(hits)].password_hash # _hash_password(clave_plain) THEN None
  ELSE Some(users[First(hits)])

\* get_current_user: the position in STORES["users"] of the dict the handler
\* receives (the handler mutates that dict in place), or None for a 401
get_current_user(token) ==
  IF token \notin DOMAIN tokens THEN None
  ELSE LET user_id == tokens[token]
           hits == {i \in DOMAIN users : users[i].id = user_id}
       IN IF user_id = 0 \/ hits = {} THEN None ELSE Some(First(hits))

\* mutant: the role is not checked
admin_required_anyone(user) == user.rol \in {"admin", "usuario"}

\* admin_required: TRUE when it returns, FALSE when it raises 403
admin_required(user) == user.rol = "admin"

\* listar_reseñas: STORES["reviews"].get(str(libro_id), [])
listar_resenas(libro_id) ==
  IF str(libro_id) \in DOMAIN reviews THEN reviews[str(libro_id)] ELSE <<>>

\* obtener_mi_biblioteca: the books whose id is in the user's biblioteca
obtener_mi_biblioteca(user) ==
  LET ids == {user.biblioteca[k] : k \in DOMAIN user.biblioteca}
      in_biblioteca(b) == b.id \in ids
  IN SelectSeq(books, in_biblioteca)

\* q in s, for strings: q occurs in s as a run of consecutive characters
Contains(s, q) ==
  \E i \in 0..(Len(s) - Len(q)) : SubSeq(s, i + 1, i + Len(q)) = q

\* the truth value of an Optional[str]: None and "" are false
Truthy(opt) == opt # None /\ opt[1] # <<>>

\* mutant: the search text must occur in the title and in the author
list_books_and(categoria, search) ==
  LET same_categoria(b) == lower(b.categoria) = lower(categoria[1])
      by_categoria == IF Truthy(categoria) THEN SelectSeq(books, same_categoria) ELSE books
      matches(b) == /\ Contains(lower(b.titulo), lower(search[1]))
                    /\ Contains(lower(b.autor), lower(search[1]))
  IN IF Truthy(search) THEN SelectSeq(by_categoria, matches) ELSE by_categoria

\* LibraryFacade.list_books: the copy of the list, filtered by categoria when
\* one is given and then by search when one is given
list_books(categoria, search) ==
  LET same_categoria(b) == lower(b.categoria) = lower(categoria[1])
      by_categoria == IF Truthy(categoria) THEN SelectSeq(books, same_categoria) ELSE books
      matches(b) == \/ Contains(lower(b.titulo), lower(search[1]))
                    \/ Contains(lower(b.autor), lower(search[1]))
  IN IF Truthy(search) THEN SelectSeq(by_categoria, matches) ELSE by_categoria

\* a slice bound as list slicing reads it: negative counts from the end,
\* and the result is clamped to 0..len
SliceBound(n, len) ==
  LET m == IF n < 0 THEN n + len ELSE n
  IN IF m < 0 THEN 0 ELSE IF m > len THEN len ELSE m

\* items[start:end]
Slice(items, start, end) ==
  SubSeq(items, SliceBound(start, Len(items)) + 1, SliceBound(end, Len(items)))

\* listar_libros: the page of list_books that the handler returns
listar_libros(page, limit, categoria, search) ==
  LET items == list_books(categoria, search)
      start == (page - 1) * limit
      end   == start + limit
  IN Slice(items, start, end)

\* the number of reviews in the store
StoredReviews ==
  LET keys == DOMAIN reviews
      Count[S \in SUBSET keys] ==
        IF S = {} THEN 0
        ELSE LET k == CHOOSE x \in S : TRUE IN Len(reviews[k]) + Count[S \ {k}]
  IN Count[keys]

\* a request that raises HTTPException before changing anything
Reject(op, status) ==
  /\ resp' = [op |-> op, status |-> status]
  /\ notified' = <<>>
  /\ UNCHANGED store

\* a request that returns normally
Reply(op, status) == resp' = [op |-> op, status |-> status]

RemoveAt(s, i) == SubSeq(s, 1, i - 1) \o SubSeq(s, i + 1, Len(s))

\* dict.pop(key, None)
DictPop(d, key) == [k \in DOMAIN d \ {key} |-> d[k]]

\* dict.setdefault(key, []).append(rec)
\* mutant: d[key] = [rec] in place of d.setdefault(key, []).append(rec)
DictAppend_assign(d, key, rec) ==
  [k \in DOMAIN d \cup {key} |-> IF k = key THEN <<rec>> ELSE d[k]]

\* d.setdefault(key, []).append(rec)
DictAppend(d, key, rec) ==
  [k \in DOMAIN d \cup {key} |->
     IF k = key THEN Append(IF key \in DOMAIN d THEN d[key] ELSE <<>>, rec)
     ELSE d[k]]

\* x in list
In(x, s) == \E k \in DOMAIN s : s[k] = x

\* mutant: list.pop() in place of list.remove(x)
ListRemove_pop(s, x) == SubSeq(s, 1, Len(s) - 1)

\* list.remove(x): drops the first occurrence
ListRemove(s, x) == RemoveAt(s, First({k \in DOMAIN s : s[k] = x}))

----
\* Identifier generator

\* mutant: the id is taken from the length of the list
next_book_id_from_len(val) ==
  /\ val = Len(books) + 1
  /\ _next_book_id' = _next_book_id + 1

\* next_book_id(): returns val and advances the counter
next_book_id(val) ==
  /\ val = _next_book_id
  /\ _next_book_id' = _next_book_id + 1

\* next_user_id(): returns val and advances the counter
next_user_id(val) ==
  /\ val = _next_user_id
  /\ _next_user_id' = _next_user_id + 1

----
\* LibraryFacade mutations

add_book(titulo, autor, categoria, contenido) ==
  \E val \in 1.._next_book_id :
    LET book == [id |-> val, titulo |-> titulo, autor |-> autor,
                 categoria |-> categoria, contenido |-> contenido]
    IN /\ next_book_id(val)
       /\ books' = Append(books, book)
       /\ issued' = Append(issued, val)
       /\ notified' = notify("LIBRO_CREADO", book)

\* mutant: every key of changes is assigned, a missing one as the empty string
ApplyChanges_all(b, changes) ==
  [b EXCEPT
     !.titulo    = IF changes.titulo # None THEN changes.titulo[1] ELSE <<>>,
     !.autor     = IF changes.autor # None THEN changes.autor[1] ELSE <<>>,
     !.categoria = IF changes.categoria # None THEN changes.categoria[1] ELSE <<>>,
     !.contenido = IF changes.contenido # None THEN changes.contenido[1] ELSE <<>>]

\* the dict b after the four conditional assignments of update_book
ApplyChanges(b, changes) ==
  [b EXCEPT
     !.titulo    = IF changes.titulo # None THEN changes.titulo[1] ELSE @,
     !.autor     = IF changes.autor # None THEN changes.autor[1] ELSE @,
     !.categoria = IF changes.categoria # None THEN changes.categoria[1] ELSE @,
     !.contenido = IF changes.contenido # None THEN changes.contenido[1] ELSE @]

\* update_book when a book with that id exists (otherwise it returns None)
update_book(libro_id, changes) ==
  LET i == First({k \in DOMAIN books : books[k].id = libro_id})
      b == ApplyChanges(books[i], changes)
  IN /\ books' = [books EXCEPT ![i] = b]
     /\ notified' = notify("LIBRO_ACTUALIZADO", b)

\* mutant: the reviews of the deleted book are kept
delete_book_keeps_reviews(libro_id) ==
  LET i == First({k \in DOMAIN books : books[k].id = libro_id})
      removed == books[i]
  IN /\ books' = RemoveAt(books, i)
     /\ reviews' = reviews
     /\ notified' = notify("LIBRO_ELIMINADO", removed)

\* delete_book when a book with that id exists (otherwise it returns False)
delete_book(libro_id) ==
  LET i == First({k \in DOMAIN books : books[k].id = libro_id})
      removed == books[i]
  IN /\ books' = RemoveAt(books, i)
     /\ reviews' = DictPop(reviews, str(libro_id))
     /\ notified' = notify("LIBRO_ELIMINADO", removed)

\* mutant: the review is stored without publishing the event
add_review_silent(libro_id, usuario_id, texto, cal) ==
  LET key == str(libro_id)
      rec == [usuario_id |-> usuario_id, texto |-> texto, cal |-> cal]
  IN /\ reviews' = DictAppend(reviews, key, rec)
     /\ notified' = <<>>

add_review(libro_id, usuario_id, texto, cal) ==
  LET key == str(libro_id)
      rec == [usuario_id |-> usuario_id, texto |-> texto, cal |-> cal]
  IN /\ reviews' = DictAppend(reviews, key, rec)
     /\ notified' = notify("RESEÑA_AGREGADA",
                           [libro_id |-> libro_id, usuario_id |-> usuario_id,
                            texto |-> texto, cal |-> cal])

register_user(nombre, email, password_hash, rol) ==
  \E val \in 1.._next_user_id :
    LET user == [id |-> val, nombre |-> nombre, email |-> email,
                 password_hash |-> password_hash, rol |-> rol,
                 biblioteca |-> <<>>]
    IN /\ next_user_id(val)
       /\ users' = Append(users, user)
       /\ notified' = notify("USUARIO_REGISTRADO",
                             [id |-> user.id, email |-> user.email, rol |-> user.rol])

----
\* Request handlers, each served from start to end

crear_libro(token, data) ==
  LET user == get_current_user(token) IN
  /\ UNCHANGED conc
  /\ IF user = None THEN Reject("get_current_user", 401)
     ELSE IF ~admin_required(users[user[1]])
     THEN Reject("crear_libro", 403)
     ELSE /\ _next_book_id < InitialNextBookId + MaxNewBooks
          /\ add_book(data.titulo, data.autor, data.categoria, data.contenido)
          /\ Reply("crear_libro", 201)
          /\ UNCHANGED <<users, reviews, tokens, _next_user_id>>

actualizar_libro(token, libro_id, payload) ==
  LET user == get_current_user(token) IN
  /\ UNCHANGED conc
  /\ IF user = None THEN Reject("get_current_user", 401)
     ELSE IF ~admin_required(users[user[1]])
     THEN Reject("actualizar_libro", 403)
     ELSE IF get_book(libro_id) = None
     THEN Reject("actualizar_libro", 404)
     ELSE /\ update_book(libro_id, payload)
          /\ Reply("actualizar_libro", 200)
          /\ UNCHANGED <<users, reviews, tokens, _next_book_id, _next_user_id, issued>>

eliminar_libro(token, libro_id) ==
  LET user == get_current_user(token) IN
  /\ UNCHANGED conc
  /\ IF user = None THEN Reject("get_current_user", 401)
     ELSE IF ~admin_required(users[user[1]])
     THEN Reject("eliminar_libro", 403)
     ELSE IF get_book(libro_id) = None
     THEN Reject("eliminar_libro", 404)
     ELSE /\ delete_book(libro_id)
          /\ Reply("eliminar_libro", 204)
          /\ UNCHANGED <<users, tokens, _next_book_id, _next_user_id, issued>>

crear_resena(token, libro_id, payload) ==
  LET user == get_current_user(token) IN
  /\ UNCHANGED conc
  /\ IF user = None THEN Reject("get_current_user", 401)
     ELSE IF get_book(libro_id) = None
     THEN Reject("crear_resena", 404)
     ELSE /\ StoredReviews < MaxReviews
          /\ add_review(libro_id, users[user[1]].id, payload.texto, payload.cal)
          /\ Reply("crear_resena", 201)
          /\ UNCHANGED <<books, users, tokens, _next_book_id, _next_user_id, issued>>

\* mutant: the body is not validated
ReviewCreate_any(body) == body.cal \in Int

\* ReviewCreate: texto has min_length 1, cal is between 1 and 5
ReviewCreate(body) ==
  /\ Len(body.texto) >= 1
  /\ body.cal >= 1
  /\ body.cal <= 5

\* mutant: the review is stored without looking the book up
POST_resenas_no_lookup(token, libro_id, body) ==
  LET user == get_current_user(token) IN
  /\ UNCHANGED conc
  /\ IF user = None THEN Reject("get_current_user", 401)
     ELSE IF ~ReviewCreate(body)
     THEN Reject("ReviewCreate", 422)
     ELSE /\ StoredReviews <= MaxReviews
          /\ add_review(libro_id, users[user[1]].id, body.texto, body.cal)
          /\ Reply("crear_resena", 201)
          /\ UNCHANGED <<books, users, tokens, _next_book_id, _next_user_id, issued>>

\* POST /libros/{id}/reseñas as it is served: the get_current_user
\* dependency, the validation of the body as a ReviewCreate (422 when it
\* fails, before the handler is entered), then crear_reseña; room is left for
\* one review more than crear_resena allows, so that a book can hold two
POST_resenas(token, libro_id, body) ==
  LET user == get_current_user(token) IN
  /\ UNCHANGED conc
  /\ IF user = None THEN Reject("get_current_user", 401)
     ELSE IF ~ReviewCreate(body)
     THEN Reject("ReviewCreate", 422)
     ELSE IF get_book(libro_id) = None
     THEN Reject("crear_resena", 404)
     ELSE /\ StoredReviews <= MaxReviews
          /\ add_review(libro_id, users[user[1]].id, body.texto, body.cal)
          /\ Reply("crear_resena", 201)
          /\ UNCHANGED <<books, users, tokens, _next_book_id, _next_user_id, issued>>

registrar_usuario(payload) ==
  /\ UNCHANGED conc
  /\ IF _get_user_by_email(payload.email) # None
     THEN Reject("registrar_usuario", 409)
     ELSE /\ Len(users) <= MaxNewUsers
          /\ register_user(payload.nombre, lower(strip(payload.email)),
                           _hash_password(payload.clave), payload.rol)
          /\ Reply("registrar_usuario", 201)
          /\ UNCHANGED <<books, reviews, tokens, _next_book_id, issued>>

\* secrets.token_urlsafe(32): a fresh opaque value; the k-th value it returns
\* is named Token(k)
token_urlsafe == Token(Cardinality(DOMAIN tokens) + 1)

\* mutant: a login replaces the user's session instead of adding one
login_single_session(payload) ==
  LET user == authenticate(payload.email, payload.clave) IN
  /\ UNCHANGED conc
  /\ IF user = None THEN Reject("login", 401)
     ELSE LET token == token_urlsafe IN
          /\ Cardinality(DOMAIN tokens) < MaxTokens
          /\ tokens' = [t \in DOMAIN tokens \cup {token} |->
                          IF t = token THEN user[1].id
                          ELSE IF tokens[t] = user[1].id THEN 0 ELSE tokens[t]]
          /\ Reply("login", 200)
          /\ notified' = <<>>
          /\ UNCHANGED <<books, users, reviews, _next_book_id, _next_user_id, issued>>

login(payload) ==
  LET user == authenticate(payload.email, payload.clave) IN
  /\ UNCHANGED conc
  /\ IF user = None THEN Reject("login", 401)
     ELSE LET token == token_urlsafe IN
          /\ Cardinality(DOMAIN tokens) < MaxTokens
          /\ tokens' = [t \in DOMAIN tokens \cup {token} |->
                          IF t = token THEN user[1].id ELSE tokens[t]]
          /\ Reply("login", 200)
          /\ notified' = <<>>
          /\ UNCHANGED <<books, users, reviews, _next_book_id, _next_user_id, issued>>

\* mutant: no check for a book already in the library
agregar_a_mi_biblioteca_no_conflict(token, libro_id) ==
  LET user == get_current_user(token) IN
  /\ UNCHANGED conc
  /\ IF user = None THEN Reject("get_current_user", 401)
     ELSE IF get_book(libro_id) = None
     THEN Reject("agregar_a_mi_biblioteca", 404)
     ELSE /\ users' = [users EXCEPT ![user[1]].biblioteca = Append(@, libro_id)]
          /\ notified' = notify("BIBLIOTECA_ACTUALIZADA",
                                [usuario_id |-> users[user[1]].id,
                                 libro_id |-> libro_id, accion |-> "agregar"])
          /\ Reply("agregar_a_mi_biblioteca", 200)
          /\ UNCHANGED <<books, reviews, tokens, _next_book_id, _next_user_id, issued>>

\* mutant: no check that the book is in the catalog
agregar_a_mi_biblioteca_no_lookup(token, libro_id) ==
  LET user == get_current_user(token) IN
  /\ UNCHANGED conc
  /\ IF user = None THEN Reject("get_current_user", 401)
     ELSE IF In(libro_id, users[user[1]].biblioteca)
     THEN Reject("agregar_a_mi_biblioteca", 409)
     ELSE /\ users' = [users EXCEPT ![user[1]].biblioteca = Append(@, libro_id)]
          /\ notified' = notify("BIBLIOTECA_ACTUALIZADA",
                                [usuario_id |-> users[user[1]].id,
                                 libro_id |-> libro_id, accion |-> "agregar"])
          /\ Reply("agregar_a_mi_biblioteca", 200)
          /\ UNCHANGED <<books, reviews, tokens, _next_book_id, _next_user_id, issued>>

\* mutant: the id is appended to the library of the first user in the
\* store instead of the caller's
agregar_a_mi_biblioteca_first_user(token, libro_id) ==
  LET user == get_current_user(token) IN
  /\ UNCHANGED conc
  /\ IF user = None THEN Reject("get_current_user", 401)
     ELSE IF get_book(libro_id) = None
     THEN Reject("agregar_a_mi_biblioteca", 404)
     ELSE IF In(libro_id, users[1].biblioteca)
     THEN Reject("agregar_a_mi_biblioteca", 409)
     ELSE /\ users' = [users EXCEPT ![1].biblioteca = Append(@, libro_id)]
          /\ notified' = notify("BIBLIOTECA_ACTUALIZADA",
                                [usuario_id |-> users[user[1]].id,
                                 libro_id |-> libro_id, accion |-> "agregar"])
          /\ Reply("agregar_a_mi_biblioteca", 200)
          /\ UNCHANGED <<books, reviews, tokens, _next_book_id, _next_user_id, issued>>

agregar_a_mi_biblioteca(token, libro_id) ==
  LET user == get_current_user(token) IN
  /\ UNCHANGED conc
  /\ IF user = None THEN Reject("get_current_user", 401)
     ELSE IF get_book(libro_id) = None
     THEN Reject("agregar_a_mi_biblioteca", 404)
     ELSE IF In(libro_id, users[user[1]].biblioteca)
     THEN Reject("agregar_a_mi_biblioteca", 409)
     ELSE /\ users' = [users EXCEPT ![user[1]].biblioteca = Append(@, libro_id)]
          /\ notified' = notify("BIBLIOTECA_ACTUALIZADA",
                                [usuario_id |-> users[user[1]].id,
                                 libro_id |-> libro_id, accion |-> "agregar"])
          /\ Reply("agregar_a_mi_biblioteca", 200)
          /\ UNCHANGED <<books, reviews, tokens, _next_book_id, _next_user_id, issued>>

\* mutant: the book is looked up first, as in agregar_a_mi_biblioteca
quitar_de_mi_biblioteca_with_lookup(token, libro_id) ==
  LET user == get_current_user(token) IN
  /\ UNCHANGED conc
  /\ IF user = None THEN Reject("get_current_user", 401)
     ELSE IF get_book(libro_id) = None
     THEN Reject("quitar_de_mi_biblioteca", 404)
     ELSE IF ~In(libro_id, users[user[1]].biblioteca)
     THEN Reject("quitar_de_mi_biblioteca", 404)
     ELSE /\ users' = [users EXCEPT ![user[1]].biblioteca = ListRemove(@, libro_id)]
          /\ notified' = notify("BIBLIOTECA_ACTUALIZADA",
                                [usuario_id |-> users[user[1]].id,
                                 libro_id |-> libro_id, accion |-> "quitar"])
          /\ Reply("quitar_de_mi_biblioteca", 200)
          /\ UNCHANGED <<books, reviews, tokens, _next_book_id, _next_user_id, issued>>

quitar_de_mi_biblioteca(token, libro_id) ==
  LET user == get_current_user(token) IN
  /\ UNCHANGED conc
  /\ IF user = None THEN Reject("get_current_user", 401)
     ELSE IF ~In(libro_id, users[user[1]].biblioteca)
     THEN Reject("quitar_de_mi_biblioteca", 404)
     ELSE /\ users' = [users EXCEPT ![user[1]].biblioteca = ListRemove(@, libro_id)]
          /\ notified' = notify("BIBLIOTECA_ACTUALIZADA",
                                [usuario_id |-> users[user[1]].id,
                                 libro_id |-> libro_id, accion |-> "quitar"])
          /\ Reply("quitar_de_mi_biblioteca", 200)
          /\ UNCHANGED <<books, reviews, tokens, _next_book_id, _next_user_id, issued>>

\* a handler that returns, or raises, without calling notify or writing to the store
Answer(op, status) ==
  /\ resp' = [op |-> op, status |-> status]
  /\ notified' = <<>>
  /\ UNCHANGED store

\* GET /api/v1/libros: returns listar_libros(page, limit, categoria, search)
Do_listar_libros ==
  /\ UNCHANGED conc
  /\ Answer("listar_libros", 200)

\* GET /api/v1/libros/{libro_id}
obtener_libro(libro_id) ==
  /\ UNCHANGED conc
  /\ IF get_book(libro_id) = None
     THEN Reject("obtener_libro", 404)
     ELSE Answer("obtener_libro", 200)

\* GET /api/v1/libros/{libro_id}/reseñas: returns listar_resenas(libro_id)
Do_listar_resenas ==
  /\ UNCHANGED conc
  /\ Answer("listar_resenas", 200)

\* GET /api/v1/auth/me
who_am_i(token) ==
  /\ UNCHANGED conc
  /\ IF get_current_user(token) = None
     THEN Reject("get_current_user", 401)
     ELSE Answer("who_am_i", 200)

\* GET /api/v1/usuarios/me/biblioteca: returns obtener_mi_biblioteca(user)
Do_obtener_mi_biblioteca ==
  \E token \in TokenInputs :
    /\ UNCHANGED conc
    /\ IF get_current_user(token) = None
       THEN Reject("get_current_user", 401)
       ELSE Answer("obtener_mi_biblioteca", 200)

UserCreateInputs ==
  [nombre : NombreInputs, email : EmailInputs, clave : NewClaveInputs, rol : RolInputs]

LoginInputs == [email : LoginEmailInputs, clave : ClaveInputs]

----
\* Specifications

Do_crear_libro ==
  \E token \in TokenInputs, data \in BookCreateInputs : crear_libro(token, data)

Do_actualizar_libro ==
  \E token \in TokenInputs, libro_id \in LibroIds, payload \in BookUpdateInputs :
    actualizar_libro(token, libro_id, payload)

Do_eliminar_libro ==
  \E token \in TokenInputs, libro_id \in LibroIds : eliminar_libro(token, libro_id)

Do_crear_resena ==
  \E token \in TokenInputs, libro_id \in LibroIds, payload \in ReviewCreateInputs :
    crear_resena(token, libro_id, payload)

Do_registrar_usuario == \E payload \in UserCreateInputs : registrar_usuario(payload)

Do_login == \E payload \in LoginInputs : login(payload)

Do_agregar_a_mi_biblioteca ==
  \E token \in TokenInputs, libro_id \in LibroIds : agregar_a_mi_biblioteca(token, libro_id)

Do_quitar_de_mi_biblioteca ==
  \E token \in TokenInputs, libro_id \in LibroIds : quitar_de_mi_biblioteca(token, libro_id)

\* every handler, one request at a time
Next ==
  \/ Do_crear_libro
  \/ Do_actualizar_libro
  \/ Do_eliminar_libro
  \/ Do_crear_resena
  \/ Do_registrar_usuario
  \/ Do_login
  \/ Do_agregar_a_mi_biblioteca
  \/ Do_quitar_de_mi_biblioteca

Spec == Init /\ [][Next]_vars

\* the catalog and its reviews: accounts, tokens, books and reviews
NextCatalogo ==
  \/ Do_crear_libro
  \/ Do_actualizar_libro
  \/ Do_eliminar_libro
  \/ Do_crear_resena
  \/ Do_registrar_usuario
  \/ Do_login

SpecCatalogo == Init /\ [][NextCatalogo]_vars

\* the personal libraries: accounts, tokens, books coming and going, library membership
NextBiblioteca ==
  \/ Do_crear_libro
  \/ Do_eliminar_libro
  \/ Do_registrar_usuario
  \/ Do_login
  \/ Do_agregar_a_mi_biblioteca
  \/ Do_quitar_de_mi_biblioteca

SpecBiblioteca == Init /\ [][NextBiblioteca]_vars

\* updates of every shape on books that come and go, with reviews
NextActualizar ==
  \/ Do_login
  \/ Do_crear_libro
  \/ Do_eliminar_libro
  \/ Do_crear_resena
  \/ \E token \in TokenInputs, libro_id \in LibroIds, payload \in BookUpdateCampos :
       actualizar_libro(token, libro_id, payload)

SpecActualizar == Init /\ [][NextActualizar]_vars

\* reviews, valid or not, on books that come and go
NextResenas ==
  \/ Do_login
  \/ Do_crear_libro
  \/ Do_eliminar_libro
  \/ \E token \in TokenInputs, libro_id \in LibroIds, body \in ReviewBodies :
       POST_resenas(token, libro_id, body)

SpecResenas == Init /\ [][NextResenas]_vars

\* listings of a catalogue whose books are created, updated and deleted
NextListar ==
  \/ Do_login
  \/ Do_crear_libro
  \/ Do_eliminar_libro
  \/ \E token \in TokenInputs, libro_id \in LibroIds, payload \in BookUpdateCampos :
       actualizar_libro(token, libro_id, payload)
  \/ Do_listar_libros

SpecListar == Init /\ [][NextListar]_vars

\* sessions: accounts are registered, log in and present tokens, while
\* books are created and enter and leave libraries
NextSesiones ==
  \/ Do_registrar_usuario
  \/ Do_login
  \/ \E token \in TokenInputs : who_am_i(token)
  \/ Do_crear_libro
  \/ Do_agregar_a_mi_biblioteca
  \/ Do_quitar_de_mi_biblioteca

SpecSesiones == Init /\ [][NextSesiones]_vars

\* book ids named by the requests of NextEventos
EventoIds == {1}

\* every handler, the read-only ones included, one request at a time; new
\* accounts take the default role
NextEventos ==
  \/ Do_crear_libro
  \/ \E token \in TokenInputs, libro_id \in EventoIds, payload \in BookUpdateInputs :
       actualizar_libro(token, libro_id, payload)
  \/ \E token \in TokenInputs, libro_id \in EventoIds : eliminar_libro(token, libro_id)
  \/ \E token \in TokenInputs, libro_id \in EventoIds, payload \in ReviewCreateInputs :
       crear_resena(token, libro_id, payload)
  \/ \E payload \in UserCreateInputs : payload.rol = "usuario" /\ registrar_usuario(payload)
  \/ Do_login
  \/ \E token \in TokenInputs, libro_id \in EventoIds : agregar_a_mi_biblioteca(token, libro_id)
  \/ \E token \in TokenInputs, libro_id \in EventoIds : quitar_de_mi_biblioteca(token, libro_id)
  \/ Do_listar_libros
  \/ \E libro_id \in EventoIds : obtener_libro(libro_id)
  \/ Do_listar_resenas
  \/ \E token \in TokenInputs : who_am_i(token)
  \/ Do_obtener_mi_biblioteca

SpecEventos == Init /\ [][NextEventos]_vars

\* the libraries of an admin and of ordinary users, with the catalogue
\* created, updated and deleted under them
NextPropiedad ==
  \/ \E payload \in UserCreateInputs : payload.rol = "usuario" /\ registrar_usuario(payload)
  \/ Do_login
  \/ Do_crear_libro
  \/ \E token \in TokenInputs, libro_id \in EventoIds, payload \in BookUpdateInputs :
       actualizar_libro(token, libro_id, payload)
  \/ \E token \in TokenInputs, libro_id \in EventoIds : eliminar_libro(token, libro_id)
  \/ Do_agregar_a_mi_biblioteca
  \/ Do_quitar_de_mi_biblioteca

SpecPropiedad == Init /\ [][NextPropiedad]_vars

----
\* Request handlers served by concurrent worker threads: the endpoints are
\* plain def functions, which the framework runs in a thread pool, and the
\* code takes no lock, so threads interleave between statements

Idle(t) == pc[t] = "idle"

Goto(t, label) == pc' = [pc EXCEPT ![t] = label]

\* the thread's request ends with this status
Finish(t, status) ==
  /\ pc' = [pc EXCEPT ![t] = "idle"]
  /\ loc' = [loc EXCEPT ![t].status = status]

\* login, taken as one step
t_login(t, payload) ==
  LET user == authenticate(payload.email, payload.clave) IN
  /\ Idle(t)
  /\ user # None
  /\ Cardinality(DOMAIN tokens) < MaxTokens
  /\ tokens' = [k \in DOMAIN tokens \cup {token_urlsafe} |->
                  IF k = token_urlsafe THEN user[1].id ELSE tokens[k]]
  /\ pc' = pc
  /\ loc' = [loc EXCEPT ![t] = [op |-> "login", payload |-> payload, val |-> 0, status |-> 200]]
  /\ UNCHANGED <<books, users, reviews, _next_book_id, _next_user_id, issued, resp, notified>>

\* crear_libro up to the call of facade.add_book: get_current_user, admin_required
t_crear_libro(t, token, data) ==
  LET user == get_current_user(token) IN
  /\ Idle(t)
  /\ _next_book_id < InitialNextBookId + MaxNewBooks
  /\ IF user = None
     THEN loc' = [loc EXCEPT ![t] = [op |-> "crear_libro", payload |-> data, val |-> 0, status |-> 401]]
          /\ pc' = pc
     ELSE IF ~admin_required(users[user[1]])
     THEN loc' = [loc EXCEPT ![t] = [op |-> "crear_libro", payload |-> data, val |-> 0, status |-> 403]]
          /\ pc' = pc
     ELSE loc' = [loc EXCEPT ![t] = [op |-> "crear_libro", payload |-> data, val |-> 0, status |-> 0]]
          /\ Goto(t, "next_book_id_read")
  /\ UNCHANGED <<store, resp, notified>>

\* next_book_id: val = _next_book_id
t_next_book_id_read(t) ==
  /\ pc[t] = "next_book_id_read"
  /\ loc' = [loc EXCEPT ![t].val = _next_book_id]
  /\ Goto(t, "next_book_id_incr")
  /\ UNCHANGED <<store, resp, notified>>

\* next_book_id: _next_book_id += 1; return val
t_next_book_id_incr(t) ==
  /\ pc[t] = "next_book_id_incr"
  /\ _next_book_id' = _next_book_id + 1
  /\ issued' = Append(issued, loc[t].val)
  /\ Goto(t, "add_book_append")
  /\ UNCHANGED <<books, users, reviews, tokens, _next_user_id, resp, notified, loc>>

\* the book dict add_book builds from the id it obtained
t_book(t) ==
  [id |-> loc[t].val, titulo |-> loc[t].payload.titulo, autor |-> loc[t].payload.autor,
   categoria |-> loc[t].payload.categoria, contenido |-> loc[t].payload.contenido]

\* mutant: add_book calls notify before it appends the book
t_add_book_append_deferred(t) ==
  /\ pc[t] = "add_book_append"
  /\ Goto(t, "add_book_notify")
  /\ UNCHANGED <<books, users, reviews, tokens, _next_book_id, _next_user_id, issued, resp, notified, loc>>

\* add_book: self.store["books"].append(book)
t_add_book_append(t) ==
  /\ pc[t] = "add_book_append"
  /\ books' = Append(books, t_book(t))
  /\ Goto(t, "add_book_notify")
  /\ UNCHANGED <<users, reviews, tokens, _next_book_id, _next_user_id, issued, resp, notified, loc>>

\* add_book: self.events.notify(...); return book
t_add_book_notify(t) ==
  /\ pc[t] = "add_book_notify"
  /\ notified' = notify("LIBRO_CREADO", t_book(t))
  /\ Finish(t, 201)
  /\ UNCHANGED <<store, resp>>

\* registrar_usuario up to the call of facade.register_user: the 409 check
t_registrar_usuario(t, payload) ==
  /\ Idle(t)
  /\ Len(users) <= MaxNewUsers
  /\ IF _get_user_by_email(payload.email) # None
     THEN loc' = [loc EXCEPT ![t] = [op |-> "registrar_usuario", payload |-> payload, val |-> 0, status |-> 409]]
          /\ pc' = pc
     ELSE loc' = [loc EXCEPT ![t] = [op |-> "registrar_usuario", payload |-> payload, val |-> 0, status |-> 0]]
          /\ Goto(t, "next_user_id_read")
  /\ UNCHANGED <<store, resp, notified>>

\* next_user_id: val = _next_user_id
t_next_user_id_read(t) ==
  /\ pc[t] = "next_user_id_read"
  /\ loc' = [loc EXCEPT ![t].val = _next_user_id]
  /\ Goto(t, "next_user_id_incr")
  /\ UNCHANGED <<store, resp, notified>>

\* next_user_id: _next_user_id += 1; return val
t_next_user_id_incr(t) ==
  /\ pc[t] = "next_user_id_incr"
  /\ _next_user_id' = _next_user_id + 1
  /\ Goto(t, "register_user_append")
  /\ UNCHANGED <<books, users, reviews, tokens, _next_book_id, issued, resp, notified, loc>>

\* the user dict register_user builds from the id it obtained
t_user(t) ==
  [id |-> loc[t].val, nombre |-> loc[t].payload.nombre,
   email |-> lower(strip(loc[t].payload.email)),
   password_hash |-> _hash_password(loc[t].payload.clave),
   rol |-> loc[t].payload.rol, biblioteca |-> <<>>]

\* register_user: self.store["users"].append(user)
t_register_user_append(t) ==
  /\ pc[t] = "register_user_append"
  /\ users' = Append(users, t_user(t))
  /\ Goto(t, "register_user_notify")
  /\ UNCHANGED <<books, reviews, tokens, _next_book_id, _next_user_id, issued, resp, notified, loc>>

\* register_user: self.events.notify(...); return user
t_register_user_notify(t) ==
  /\ pc[t] = "register_user_notify"
  /\ notified' = notify("USUARIO_REGISTRADO",
                        [id |-> t_user(t).id, email |-> t_user(t).email, rol |-> t_user(t).rol])
  /\ Finish(t, 201)
  /\ UNCHANGED <<store, resp>>

NextConc ==
  \E t \in Threads :
    \/ \E payload \in LoginInputs : t_login(t, payload)
    \/ \E token \in TokenInputs, data \in BookCreateInputs : t_crear_libro(t, token, data)
    \/ t_next_book_id_read(t)
    \/ t_next_book_id_incr(t)
    \/ t_add_book_append(t)
    \/ t_add_book_notify(t)
    \/ \E payload \in UserCreateInputs : t_registrar_usuario(t, payload)
    \/ t_next_user_id_read(t)
    \/ t_next_user_id_incr(t)
    \/ t_register_user_append(t)
    \/ t_register_user_notify(t)

SpecConc == Init /\ [][NextConc]_vars

\* crear_reseña up to the call of facade.add_review: get_current_user, get_book
t_crear_resena(t, token, libro_id, payload) ==
  LET user == get_current_user(token)
      args == [libro_id |-> libro_id, usuario_id |-> IF user = None THEN 0 ELSE users[user[1]].id,
               texto |-> payload.texto, cal |-> payload.cal]
  IN /\ Idle(t)
     /\ StoredReviews < MaxReviews
     /\ IF user = None
        THEN loc' = [loc EXCEPT ![t] = [op |-> "crear_resena", payload |-> args, val |-> libro_id, status |-> 401]]
             /\ pc' = pc
        ELSE IF get_book(libro_id) = None
        THEN loc' = [loc EXCEPT ![t] = [op |-> "crear_resena", payload |-> args, val |-> libro_id, status |-> 404]]
             /\ pc' = pc
        ELSE loc' = [loc EXCEPT ![t] = [op |-> "crear_resena", payload |-> args, val |-> libro_id, status |-> 0]]
             /\ Goto(t, "add_review_append")
     /\ UNCHANGED <<store, resp, notified>>

\* add_review: self.store["reviews"].setdefault(key, []).append(rec)
t_add_review_append(t) ==
  /\ pc[t] = "add_review_append"
  /\ reviews' = DictAppend(reviews, str(loc[t].payload.libro_id),
                           [usuario_id |-> loc[t].payload.usuario_id,
                            texto |-> loc[t].payload.texto, cal |-> loc[t].payload.cal])
  /\ Goto(t, "add_review_notify")
  /\ UNCHANGED <<books, users, tokens, _next_book_id, _next_user_id, issued, resp, notified, loc>>

\* add_review: self.events.notify(...); return rec
t_add_review_notify(t) ==
  /\ pc[t] = "add_review_notify"
  /\ notified' = notify("RESEÑA_AGREGADA", loc[t].payload)
  /\ Finish(t, 201)
  /\ UNCHANGED <<store, resp>>

\* eliminar_libro up to the call of facade.delete_book: get_current_user, admin_required
t_eliminar_libro(t, token, libro_id) ==
  LET user == get_current_user(token) IN
  /\ Idle(t)
  /\ IF user = None
     THEN loc' = [loc EXCEPT ![t] = [op |-> "eliminar_libro", payload |-> <<>>, val |-> libro_id, status |-> 401]]
          /\ pc' = pc
     ELSE IF ~admin_required(users[user[1]])
     THEN loc' = [loc EXCEPT ![t] = [op |-> "eliminar_libro", payload |-> <<>>, val |-> libro_id, status |-> 403]]
          /\ pc' = pc
     ELSE loc' = [loc EXCEPT ![t] = [op |-> "eliminar_libro", payload |-> <<>>, val |-> libro_id, status |-> 0]]
          /\ Goto(t, "delete_book_pop")
  /\ UNCHANGED <<store, resp, notified>>

\* delete_book: the loop that finds the book and removed = self.store["books"].pop(i);
\* when no book has the id it returns False and the handler raises 404
t_delete_book_pop(t) ==
  LET hits == {k \in DOMAIN books : books[k].id = loc[t].val} IN
  /\ pc[t] = "delete_book_pop"
  /\ IF hits = {}
     THEN /\ Finish(t, 404)
          /\ UNCHANGED books
     ELSE /\ books' = RemoveAt(books, First(hits))
          /\ loc' = [loc EXCEPT ![t].payload = books[First(hits)]]
          /\ Goto(t, "delete_book_pop_reviews")
  /\ UNCHANGED <<users, reviews, tokens, _next_book_id, _next_user_id, issued, resp, notified>>

\* delete_book: self.store["reviews"].pop(str(libro_id), None)
t_delete_book_pop_reviews(t) ==
  /\ pc[t] = "delete_book_pop_reviews"
  /\ reviews' = DictPop(reviews, str(loc[t].val))
  /\ Goto(t, "delete_book_notify")
  /\ UNCHANGED <<books, users, tokens, _next_book_id, _next_user_id, issued, resp, notified, loc>>

\* delete_book: self.events.notify(...); return True
t_delete_book_notify(t) ==
  /\ pc[t] = "delete_book_notify"
  /\ notified' = notify("LIBRO_ELIMINADO", loc[t].payload)
  /\ Finish(t, 204)
  /\ UNCHANGED <<store, resp>>

\* crear_reseña and eliminar_libro requests served by concurrent threads
NextConcResenas ==
  \E t \in Threads :
    \/ \E payload \in LoginInputs : t_login(t, payload)
    \/ \E token \in TokenInputs, libro_id \in LibroIds, payload \in ReviewCreateInputs :
         t_crear_resena(t, token, libro_id, payload)
    \/ t_add_review_append(t)
    \/ t_add_review_notify(t)
    \/ \E token \in TokenInputs, libro_id \in LibroIds : t_eliminar_libro(t, token, libro_id)
    \/ t_delete_book_pop(t)
    \/ t_delete_book_pop_reviews(t)
    \/ t_delete_book_notify(t)

SpecConcResenas == Init /\ [][NextConcResenas]_vars

\* agregar_a_mi_biblioteca up to the append: get_current_user, get_book,
\* libro_id in user["biblioteca"]; the thread keeps the user dict it was given
t_agregar_a_mi_biblioteca(t, token, libro_id) ==
  LET user == get_current_user(token)
      args == [usuario |-> IF user = None THEN 0 ELSE user[1], libro_id |-> libro_id]
      ends(status) == loc' = [loc EXCEPT ![t] = [op |-> "agregar_a_mi_biblioteca", payload |-> args,
                                                val |-> libro_id, status |-> status]]
  IN /\ Idle(t)
     /\ IF user = None THEN ends(401) /\ pc' = pc
        ELSE IF get_book(libro_id) = None THEN ends(404) /\ pc' = pc
        ELSE IF In(libro_id, users[user[1]].biblioteca) THEN ends(409) /\ pc' = pc
        ELSE ends(0) /\ Goto(t, "agregar_append")
     /\ UNCHANGED <<store, resp, notified>>

\* agregar_a_mi_biblioteca: user["biblioteca"].append(libro_id)
t_agregar_append(t) ==
  /\ pc[t] = "agregar_append"
  /\ users' = [users EXCEPT ![loc[t].payload.usuario].biblioteca = Append(@, loc[t].val)]
  /\ Goto(t, "agregar_notify")
  /\ UNCHANGED <<books, reviews, tokens, _next_book_id, _next_user_id, issued, resp, notified, loc>>

\* agregar_a_mi_biblioteca: event_subject.notify(...); return
t_agregar_notify(t) ==
  /\ pc[t] = "agregar_notify"
  /\ notified' = notify("BIBLIOTECA_ACTUALIZADA",
                        [usuario_id |-> users[loc[t].payload.usuario].id,
                         libro_id |-> loc[t].val, accion |-> "agregar"])
  /\ Finish(t, 200)
  /\ UNCHANGED <<store, resp>>

\* quitar_de_mi_biblioteca up to the remove: get_current_user,
\* libro_id not in user["biblioteca"]
t_quitar_de_mi_biblioteca(t, token, libro_id) ==
  LET user == get_current_user(token)
      args == [usuario |-> IF user = None THEN 0 ELSE user[1], libro_id |-> libro_id]
      ends(status) == loc' = [loc EXCEPT ![t] = [op |-> "quitar_de_mi_biblioteca", payload |-> args,
                                                val |-> libro_id, status |-> status]]
  IN /\ Idle(t)
     /\ IF user = None THEN ends(401) /\ pc' = pc
        ELSE IF ~In(libro_id, users[user[1]].biblioteca) THEN ends(404) /\ pc' = pc
        ELSE ends(0) /\ Goto(t, "quitar_remove")
     /\ UNCHANGED <<store, resp, notified>>

\* quitar_de_mi_biblioteca: user["biblioteca"].remove(libro_id), which raises
\* ValueError (a 500) when another thread removed the id first
t_quitar_remove(t) ==
  /\ pc[t] = "quitar_remove"
  /\ IF In(loc[t].val, users[loc[t].payload.usuario].biblioteca)
     THEN /\ users' = [users EXCEPT ![loc[t].payload.usuario].biblioteca = ListRemove(@, loc[t].val)]
          /\ Goto(t, "quitar_notify")
          /\ UNCHANGED loc
     ELSE /\ Finish(t, 500)
          /\ UNCHANGED users
  /\ UNCHANGED <<books, reviews, tokens, _next_book_id, _next_user_id, issued, resp, notified>>

\* quitar_de_mi_biblioteca: event_subject.notify(...); return
t_quitar_notify(t) ==
  /\ pc[t] = "quitar_notify"
  /\ notified' = notify("BIBLIOTECA_ACTUALIZADA",
                        [usuario_id |-> users[loc[t].payload.usuario].id,
                         libro_id |-> loc[t].val, accion |-> "quitar"])
  /\ Finish(t, 200)
  /\ UNCHANGED <<store, resp>>

\* library requests served by concurrent threads
NextConcBiblioteca ==
  \E t \in Threads :
    \/ \E payload \in LoginInputs : t_login(t, payload)
    \/ \E token \in TokenInputs, libro_id \in LibroIds : t_agregar_a_mi_biblioteca(t, token, libro_id)
    \/ t_agregar_append(t)
    \/ t_agregar_notify(t)
    \/ \E token \in TokenInputs, libro_id \in LibroIds : t_quitar_de_mi_biblioteca(t, token, libro_id)
    \/ t_quitar_remove(t)
    \/ t_quitar_notify(t)

SpecConcBiblioteca == Init /\ [][NextConcBiblioteca]_vars

----
\* EventSubject.notify, one observer at a time.  The observers are external
\* collaborators behind update(event, data): a call of update returns or
\* raises, and it receives the very dict the facade passed to notify.

\* actualizar_libro up to the call of facade.update_book: get_current_user, admin_required
t_actualizar_libro(t, token, libro_id, payload) ==
  LET user == get_current_user(token) IN
  /\ Idle(t)
  /\ IF user = None
     THEN loc' = [loc EXCEPT ![t] = [op |-> "actualizar_libro", payload |-> payload, val |-> libro_id, status |-> 401]]
          /\ pc' = pc
     ELSE IF ~admin_required(users[user[1]])
     THEN loc' = [loc EXCEPT ![t] = [op |-> "actualizar_libro", payload |-> payload, val |-> libro_id, status |-> 403]]
          /\ pc' = pc
     ELSE loc' = [loc EXCEPT ![t] = [op |-> "actualizar_libro", payload |-> payload, val |-> libro_id, status |-> 0]]
          /\ Goto(t, "update_book_assign")
  /\ UNCHANGED <<store, resp, notified>>

\* update_book: the loop that finds the book and assigns the given fields;
\* when no book has the id it returns None and the handler raises 404
t_update_book_assign(t) ==
  LET hits == {k \in DOMAIN books : books[k].id = loc[t].val} IN
  /\ pc[t] = "update_book_assign"
  /\ IF hits = {}
     THEN /\ Finish(t, 404)
          /\ UNCHANGED books
     ELSE /\ books' = [books EXCEPT ![First(hits)] = ApplyChanges(@, loc[t].payload)]
          /\ Goto(t, "update_book_notify")
          /\ UNCHANGED loc
  /\ UNCHANGED <<users, reviews, tokens, _next_book_id, _next_user_id, issued, resp, notified>>

\* the positions at which a facade method calls self.events.notify
NotifyEntry == {"add_book_notify", "update_book_notify", "delete_book_notify"}

\* the event name the facade method of this thread passes to notify
EventAt(t) ==
  CASE loc[t].op = "crear_libro" -> "LIBRO_CREADO"
    [] loc[t].op = "actualizar_libro" -> "LIBRO_ACTUALIZADO"
    [] loc[t].op = "eliminar_libro" -> "LIBRO_ELIMINADO"

\* where the dict passed to notify lives: add_book and update_book pass the
\* dict that is in STORES["books"], delete_book passes the dict it popped
InStore(t) == loc[t].op \in {"crear_libro", "actualizar_libro"}

\* the position in STORES["books"] of the dict passed to notify
DataIndex(t) == First({k \in DOMAIN books : books[k].id = loc[t].val})

\* the dict passed to notify, as it is now
DataAt(t) == IF InStore(t) THEN books[DataIndex(t)] ELSE loc[t].payload

\* the status with which the handler of this thread returns
StatusAt(t) ==
  CASE loc[t].op = "crear_libro" -> 201
    [] loc[t].op = "actualizar_libro" -> 200
    [] loc[t].op = "eliminar_libro" -> 204

\* the observer calls notify has made so far in this call
CallsSoFar(t) == IF pc[t] = "notify_loop" THEN notified ELSE <<>>

\* mutant: notify without the try/except, a raising observer ends the request
o_update_uncaught(t, raises) ==
  LET i == Len(CallsSoFar(t)) + 1 IN
  /\ pc[t] \in NotifyEntry \cup {"notify_loop"}
  /\ i <= Len(_observers)
  /\ notified' = Append(CallsSoFar(t),
                        [observer |-> _observers[i], event |-> EventAt(t),
                         data |-> DataAt(t), raised |-> raises])
  /\ IF raises THEN Finish(t, 500) ELSE Goto(t, "notify_loop") /\ UNCHANGED loc
  /\ UNCHANGED <<store, resp>>

\* notify: one turn of the loop, obs.update(event, data) returns or raises;
\* what it raises is caught and printed, and the loop goes on
o_update(t, raises) ==
  LET i == Len(CallsSoFar(t)) + 1 IN
  /\ pc[t] \in NotifyEntry \cup {"notify_loop"}
  /\ i <= Len(_observers)
  /\ notified' = Append(CallsSoFar(t),
                        [observer |-> _observers[i], event |-> EventAt(t),
                         data |-> DataAt(t), raised |-> raises])
  /\ Goto(t, "notify_loop")
  /\ UNCHANGED <<store, resp, loc>>

\* the values an observer may assign to a key of the dict it was given
ObserverWrites == {<<>>, <<"Z">>}

\* notify: obs.update(event, data) assigns data["titulo"] and returns; data
\* is the caller's dict, not a copy
o_update_writes(t, value) ==
  LET i == Len(CallsSoFar(t)) + 1 IN
  /\ pc[t] \in NotifyEntry \cup {"notify_loop"}
  /\ i <= Len(_observers)
  /\ notified' = Append(CallsSoFar(t),
                        [observer |-> _observers[i], event |-> EventAt(t),
                         data |-> DataAt(t), raised |-> FALSE])
  /\ IF InStore(t)
     THEN /\ books' = [books EXCEPT ![DataIndex(t)].titulo = value]
          /\ UNCHANGED loc
     ELSE /\ loc' = [loc EXCEPT ![t].payload.titulo = value]
          /\ UNCHANGED books
  /\ Goto(t, "notify_loop")
  /\ UNCHANGED <<users, reviews, tokens, _next_book_id, _next_user_id, issued, resp>>

\* notify returns after the last observer, and the facade method and the
\* handler return
o_notify_return(t) ==
  /\ pc[t] = "notify_loop"
  /\ Len(notified) = Len(_observers)
  /\ Finish(t, StatusAt(t))
  /\ UNCHANGED <<store, resp, notified>>

\* the steps of the book handlers other than the observers' update
BookSteps(t) ==
  \/ \E payload \in LoginInputs : t_login(t, payload)
  \/ \E token \in TokenInputs, data \in BookCreateInputs : t_crear_libro(t, token, data)
  \/ t_next_book_id_read(t)
  \/ t_next_book_id_incr(t)
  \/ t_add_book_append(t)
  \/ \E token \in TokenInputs, libro_id \in LibroIds, payload \in BookUpdateInputs :
       t_actualizar_libro(t, token, libro_id, payload)
  \/ t_update_book_assign(t)
  \/ \E token \in TokenInputs, libro_id \in LibroIds : t_eliminar_libro(t, token, libro_id)
  \/ t_delete_book_pop(t)
  \/ t_delete_book_pop_reviews(t)
  \/ o_notify_return(t)

\* the thread that serves the requests of the observer specifications
Worker == 1

\* book requests served one at a time, with observers that return or raise
NextObservadores ==
  \/ BookSteps(Worker)
  \/ \E raises \in BOOLEAN : o_update(Worker, raises)

SpecObservadores == Init /\ [][NextObservadores]_vars

\* the same, with observers that may also assign to the dict they are given
NextObservadoresEscriben ==
  \/ BookSteps(Worker)
  \/ \E raises \in BOOLEAN : o_update(Worker, raises)
  \/ \E value \in ObserverWrites : o_update_writes(Worker, value)

SpecObservadoresEscriben == Init /\ [][NextObservadoresEscriben]_vars

\* the facade methods that store or remove a record and then publish, one
\* statement at a time, for requests served one after the other
NextPublicar ==
  \/ \E payload \in LoginInputs : t_login(Worker, payload)
  \/ \E token \in TokenInputs, data \in BookCreateInputs : t_crear_libro(Worker, token, data)
  \/ t_next_book_id_read(Worker)
  \/ t_next_book_id_incr(Worker)
  \/ t_add_book_append(Worker)
  \/ t_add_book_notify(Worker)
  \/ \E payload \in UserCreateInputs :
       payload.rol = "usuario" /\ t_registrar_usuario(Worker, payload)
  \/ t_next_user_id_read(Worker)
  \/ t_next_user_id_incr(Worker)
  \/ t_register_user_append(Worker)
  \/ t_register_user_notify(Worker)
  \/ \E token \in TokenInputs, libro_id \in LibroIds, payload \in ReviewCreateInputs :
       t_crear_resena(Worker, token, libro_id, payload)
  \/ t_add_review_append(Worker)
  \/ t_add_review_notify(Worker)
  \/ \E token \in TokenInputs, libro_id \in LibroIds : t_eliminar_libro(Worker, token, libro_id)
  \/ t_delete_book_pop(Worker)
  \/ t_delete_book_pop_reviews(Worker)
  \/ t_delete_book_notify(Worker)

SpecPublicar == Init /\ [][NextPublicar]_vars

----
\* Properties

\* every book id a request can name or the store can hold
AllBookIds == 1..(InitialNextBookId + MaxNewBooks + 1)

\* the user dict a valid token resolves to
Caller(token) == users[get_current_user(token)[1]]

Authenticated(token) == get_current_user(token) # None

\* the step is a request that this handler answered: every handler names
\* itself in each response it gives once its caller is authenticated
AnsweredBy(op) == resp'.op = op

\* C1: every id add_book returns is greater than every seeded book id and than
\* every id add_book returned before, whatever books were deleted in between,
\* so no id is issued twice
C1_IdsStrictlyIncreasing ==
  /\ \A i \in DOMAIN issued : \A k \in DOMAIN SeedBooks : issued[i] > SeedBooks[k].id
  /\ \A i, j \in DOMAIN issued : i < j => issued[i] < issued[j]

\* C1 witness: a second add_book has just returned after the book of the first was deleted
C1_Witness ==
  /\ resp = [op |-> "crear_libro", status |-> 201]
  /\ Len(issued) = 2
  /\ get_book(issued[1]) = None
  /\ get_book(issued[2]) # None

\* C2: a successful eliminar_libro(b) leaves get_book(b) = None and no reviews
\* listed for b, and the reviews listed for every other book id as they were
C2_DeletePurgesReviews ==
  [][\A token \in TokenInputs, b \in LibroIds :
       (AnsweredBy("eliminar_libro") /\ resp'.status = 204 /\ eliminar_libro(token, b)) =>
         /\ get_book(b)' = None
         /\ listar_resenas(b)' = <<>>
         /\ \A c \in AllBookIds \ {b} : listar_resenas(c)' = listar_resenas(c)]_vars

\* C2 witness: a book has just been deleted while another book has a review
C2_Witness ==
  /\ resp = [op |-> "eliminar_libro", status |-> 204]
  /\ \E c \in AllBookIds : listar_resenas(c) # <<>>

\* C3: crear_libro, actualizar_libro and eliminar_libro called with the token of
\* a user whose rol is not admin answer 403, for an existing and for a missing
\* book alike, and change neither books nor reviews nor the id counter, and
\* notify no observer
C3_NonAdminForbidden ==
  [][\A token \in TokenInputs :
       (/\ \/ AnsweredBy("crear_libro")
           \/ AnsweredBy("actualizar_libro")
           \/ AnsweredBy("eliminar_libro")
        /\ Authenticated(token)
        /\ Caller(token).rol # "admin") =>
         \A libro_id \in LibroIds :
           ( \/ \E data \in BookCreateInputs : crear_libro(token, data)
             \/ \E payload \in BookUpdateInputs : actualizar_libro(token, libro_id, payload)
             \/ eliminar_libro(token, libro_id) )
           => /\ resp'.status = 403
              /\ UNCHANGED <<books, reviews, _next_book_id>>
              /\ notified' = <<>>]_vars

\* C3 witness: a delete was refused with 403 while one of the ids a request can
\* name has a book and another has none
C3_Witness ==
  /\ resp = [op |-> "eliminar_libro", status |-> 403]
  /\ \E a, b \in LibroIds : get_book(a) # None /\ get_book(b) = None

\* some user already has this email, letter case ignored
EmailKnown(email) == \E i \in DOMAIN users : lower(users[i].email) = lower(email)

\* no two users have emails that are equal ignoring case
EmailsUnique ==
  \A i, j \in DOMAIN users :
    i < j => lower(users[i].email) # lower(users[j].email)

\* C4: registrar_usuario with an email that an existing user (the seeded admin
\* included) already has, letter case ignored, answers 409, adds no user,
\* leaves the user id counter alone and notifies no observer (stated as: a
\* registrar_usuario step that is anything else was not made with such an
\* email); and no two users ever have emails equal ignoring case (true at the
\* start and kept by every step that changes the users)
C4_EmailConflict ==
  /\ EmailsUnique
  /\ [][UNCHANGED users \/ EmailsUnique']_vars
  /\ [][(/\ AnsweredBy("registrar_usuario")
         /\ ~(/\ resp' = [op |-> "registrar_usuario", status |-> 409]
              /\ UNCHANGED <<users, _next_user_id>>
              /\ notified' = <<>>)) =>
          \A payload \in UserCreateInputs :
            EmailKnown(payload.email) => ~registrar_usuario(payload)]_vars

\* C4 witness: a registration was refused with 409 when a registered user and
\* the admin exist
C4_Witness ==
  /\ resp = [op |-> "registrar_usuario", status |-> 409]
  /\ Len(users) = 2
  /\ \E payload \in UserCreateInputs :
       /\ payload.email # users[2].email
       /\ lower(payload.email) = lower(users[2].email)

\* some user has this email, letter case ignored, and the digest of this password
CredentialsMatch(email, clave) ==
  \E i \in DOMAIN users :
    /\ lower(users[i].email) = lower(email)
    /\ users[i].password_hash = _hash_password(clave)

\* C5: login answers 200 with a user exactly when the email matches a user
\* ignoring case and the password digest equals the stored one; for an unknown
\* email and for a wrong password alike authenticate returns None, the answer
\* is the same 401, no token is added, nothing in the store changes and no
\* observer is notified
C5_AuthenticateUniformFailure ==
  [][\A payload \in LoginInputs :
       (AnsweredBy("login") /\ login(payload)) =>
         IF CredentialsMatch(payload.email, payload.clave)
         THEN /\ authenticate(payload.email, payload.clave) # None
              /\ lower(authenticate(payload.email, payload.clave)[1].email)
                   = lower(payload.email)
              /\ authenticate(payload.email, payload.clave)[1].password_hash
                   = _hash_password(payload.clave)
              /\ resp' = [op |-> "login", status |-> 200]
         ELSE /\ authenticate(payload.email, payload.clave) = None
              /\ resp' = [op |-> "login", status |-> 401]
              /\ UNCHANGED store
              /\ notified' = <<>>]_vars

\* C5 witness: a login was refused with 401 in a state where one offered email
\* is unknown and another is known with a password that does not match
C5_Witness ==
  /\ resp = [op |-> "login", status |-> 401]
  /\ \E payload \in LoginInputs : ~EmailKnown(payload.email)
  /\ \E payload \in LoginInputs :
       EmailKnown(payload.email) /\ ~CredentialsMatch(payload.email, payload.clave)

\* no library lists a book id twice
LibrariesHaveNoDuplicates ==
  \A i \in DOMAIN users :
    \A k, m \in DOMAIN users[i].biblioteca :
      k # m => users[i].biblioteca[k] # users[i].biblioteca[m]

\* C6 as stated: agregar_a_mi_biblioteca for a book already in the caller's
\* library answers 409 and leaves the library unchanged
C6_Original ==
  [][\A token \in TokenInputs, b \in LibroIds :
       (/\ AnsweredBy("agregar_a_mi_biblioteca")
        /\ Authenticated(token)
        /\ In(b, Caller(token).biblioteca)
        /\ agregar_a_mi_biblioteca(token, b)) =>
         /\ resp'.status = 409
         /\ UNCHANGED users]_vars

\* C6 amended: agregar_a_mi_biblioteca for a book already in the caller's
\* library answers 409 while the book is in the catalog and 404 once the book
\* has been deleted, and either way leaves the library unchanged and notifies
\* no observer; no library ever lists a book id twice
C6_DuplicateAddRejected ==
  /\ []LibrariesHaveNoDuplicates
  /\ [][\A token \in TokenInputs, b \in LibroIds :
          (/\ AnsweredBy("agregar_a_mi_biblioteca")
           /\ Authenticated(token)
           /\ In(b, Caller(token).biblioteca)
           /\ agregar_a_mi_biblioteca(token, b)) =>
            /\ resp' = [op |-> "agregar_a_mi_biblioteca",
                        status |-> IF get_book(b) # None THEN 409 ELSE 404]
            /\ UNCHANGED users
            /\ notified' = <<>>]_vars

\* C6 witness: an add was refused with 409 and the caller's library is not empty
C6_Witness ==
  /\ resp = [op |-> "agregar_a_mi_biblioteca", status |-> 409]
  /\ \E i \in DOMAIN users : users[i].biblioteca # <<>>

\* C7: quitar_de_mi_biblioteca(b) answers 200 exactly when b is in the caller's
\* library; then b is gone from the library and from obtener_mi_biblioteca and
\* every other member is kept; otherwise it answers 404, leaves the users
\* unchanged and notifies no observer (stated as: the step is such a 404 or
\* was not this request)
C7_RemoveFromLibrary ==
  [][AnsweredBy("quitar_de_mi_biblioteca") =>
     \A token \in DOMAIN tokens :
       Authenticated(token) =>
         LET u == get_current_user(token)[1]
             before == users[u].biblioteca
             after == users'[u].biblioteca
         IN \A b \in LibroIds :
            IF In(b, before)
            THEN quitar_de_mi_biblioteca(token, b) =>
                   /\ resp' = [op |-> "quitar_de_mi_biblioteca", status |-> 200]
                   /\ ~In(b, after)
                   /\ \A c \in AllBookIds \ {b} : In(c, after) <=> In(c, before)
                   /\ LET listing == obtener_mi_biblioteca(Caller(token))'
                      IN \A k \in DOMAIN listing : listing[k].id # b
            ELSE \/ /\ resp' = [op |-> "quitar_de_mi_biblioteca", status |-> 404]
                    /\ UNCHANGED users
                    /\ notified' = <<>>
                 \/ ~quitar_de_mi_biblioteca(token, b)]_vars

\* C7 witness: a book was just removed from a library that keeps another book
C7_Witness ==
  /\ resp = [op |-> "quitar_de_mi_biblioteca", status |-> 200]
  /\ \E i \in DOMAIN users : users[i].biblioteca # <<>>

\* C8: agregar_a_mi_biblioteca for a book id with no book in the catalog
\* answers 404 and leaves the users unchanged; a book id enters a library only
\* in a step that starts and ends with that book in the catalog, and a new
\* user starts with an empty library
C8_AddNeedsExistingBook ==
  /\ [][AnsweredBy("agregar_a_mi_biblioteca") =>
        \A token \in TokenInputs, b \in LibroIds :
          (/\ Authenticated(token)
           /\ get_book(b) = None
           /\ agregar_a_mi_biblioteca(token, b)) =>
            /\ resp' = [op |-> "agregar_a_mi_biblioteca", status |-> 404]
            /\ UNCHANGED users
            /\ notified' = <<>>]_vars
  /\ [][\A i \in DOMAIN users' :
          IF i \in DOMAIN users
          THEN users'[i].biblioteca # users[i].biblioteca =>
                 \A b \in AllBookIds :
                   (~In(b, users[i].biblioteca) /\ In(b, users'[i].biblioteca)) =>
                     (get_book(b) # None /\ get_book(b)' # None)
          ELSE users'[i].biblioteca = <<>>]_vars

\* C8 witness: an add was refused with 404 when one nameable book has been
\* deleted and another was never created
C8_Witness ==
  /\ resp = [op |-> "agregar_a_mi_biblioteca", status |-> 404]
  /\ issued = <<>>
  /\ \A b \in LibroIds : get_book(b) = None

\* C9 as stated: with the read and the increment of the counter as separate
\* steps of concurrent crear_libro requests, no two calls obtain the same id
\* and no two books in the store share an id
C9_ConcurrentIdsDistinct ==
  /\ \A i, j \in DOMAIN issued : i # j => issued[i] # issued[j]
  /\ \A i, j \in DOMAIN books : i # j => books[i].id # books[j].id

\* C10 as stated: with the existence check and the insert as separate steps of
\* concurrent registrar_usuario requests, two requests whose emails are equal
\* ignoring case do not both succeed and the store never holds two users with
\* emails equal ignoring case
C10_ConcurrentEmailsDistinct ==
  /\ \A i, j \in DOMAIN users :
       i # j => lower(users[i].email) # lower(users[j].email)
  /\ \A t, u \in Threads :
       (/\ t # u
        /\ loc[t].op = "registrar_usuario" /\ loc[t].status = 201
        /\ loc[u].op = "registrar_usuario" /\ loc[u].status = 201)
       => lower(loc[t].payload.email) # lower(loc[u].payload.email)

\* C11: under every interleaving of crear_reseña and eliminar_libro requests,
\* every key of the stored reviews is the id of a book that is in the catalog
C11_ReviewsKeyedByExistingBooks ==
  \A key \in DOMAIN reviews : \E i \in DOMAIN books : str(books[i].id) = key

\* the same once every request has returned: no review is left behind for a
\* book that is gone
ReviewsKeyedByExistingBooksAtRest ==
  (\A t \in Threads : pc[t] = "idle") => C11_ReviewsKeyedByExistingBooks

\* the event each mutating handler publishes when it succeeds
EventOf ==
  [op \in {"crear_libro", "actualizar_libro", "eliminar_libro", "crear_resena",
           "registrar_usuario", "agregar_a_mi_biblioteca", "quitar_de_mi_biblioteca"} |->
     CASE op = "crear_libro" -> "LIBRO_CREADO"
       [] op = "actualizar_libro" -> "LIBRO_ACTUALIZADO"
       [] op = "eliminar_libro" -> "LIBRO_ELIMINADO"
       [] op = "crear_resena" -> "RESEÑA_AGREGADA"
       [] op = "registrar_usuario" -> "USUARIO_REGISTRADO"
       [] OTHER -> "BIBLIOTECA_ACTUALIZADA"]

\* the request published exactly one event of this name: each observer was
\* called once, in subscription order, with that event and the same payload
PublishedOnce(event) ==
  /\ Len(notified) = Len(_observers)
  /\ \A i \in DOMAIN notified :
       /\ notified[i].observer = _observers[i]
       /\ notified[i].event = event
       /\ notified[i].data = notified[1].data

\* C12: a request that succeeded in adding, updating or deleting a book,
\* adding a review, registering a user, or adding to or removing from a
\* library published exactly one event, the one named for its operation; a
\* request that failed (401, 403, 404, 409) and a read-only request (the
\* lists, obtener_libro, who_am_i, login) published none
C12_OneEventPerMutation ==
  IF resp.op \in DOMAIN EventOf /\ resp.status \in {200, 201, 204}
  THEN PublishedOnce(EventOf[resp.op])
  ELSE notified = <<>>

\* C12 witness: a removal from a library has just published its event, after
\* a review was stored and the book updated
C12_Witness ==
  /\ resp = [op |-> "quitar_de_mi_biblioteca", status |-> 200]
  /\ notified # <<>>
  /\ reviews # <<>>
  /\ \E i \in DOMAIN books : books[i].titulo = <<"X">>

\* the observer thread is inside notify
InNotify(t) == pc[t] \in NotifyEntry \cup {"notify_loop"}

\* the handler of this thread got as far as notify and has returned
Returned(t) ==
  /\ pc[t] = "idle"
  /\ loc[t].op \in {"crear_libro", "actualizar_libro", "eliminar_libro"}
  /\ loc[t].status \notin {401, 403, 404}

\* C13: whether observers raise or not, no step inside notify changes the
\* store, and once the handler has returned every observer was called exactly
\* once, in subscription order, with the event of the operation, and the
\* handler answered with the status of a success
C13_ObserverFailuresIsolated ==
  /\ [][InNotify(Worker) => UNCHANGED store]_vars
  /\ [](Returned(Worker) =>
          /\ loc[Worker].status = StatusAt(Worker)
          /\ Len(notified) = Len(_observers)
          /\ \A i \in DOMAIN notified :
               /\ notified[i].observer = _observers[i]
               /\ notified[i].event = EventAt(Worker))

\* C13 witness: a book was created and the handler answered 201 although the
\* first observer raised, and the second observer was called
C13_Witness ==
  /\ pc[Worker] = "idle"
  /\ loc[Worker].op = "crear_libro"
  /\ loc[Worker].status = 201
  /\ Len(notified) = Len(_observers)
  /\ notified[1].raised
  /\ \E i \in DOMAIN books : books[i].id = loc[Worker].val

\* C14: whatever the observers do with the dict they are given, the books in
\* the store are not changed by any step inside notify, and every observer
\* of an event is handed the same payload values as the first
C14_PayloadIsSnapshot ==
  /\ [][InNotify(Worker) => UNCHANGED books]_vars
  /\ [](\A i \in DOMAIN notified : notified[i].data = notified[1].data)

\* C15: actualizar_libro(b, changes) by an admin on a book that exists
\* answers 200, keeps every book at its position with its id, changes in book
\* b no field for which changes gives None, changes no other book, no review
\* and nothing else in the store; on an id with no book it answers 404,
\* changes nothing and notifies no observer (stated as: the step is as
\* described or was not this request of an admin)
C15_UpdateOnlyGivenFields ==
  [][AnsweredBy("actualizar_libro") =>
     \A b \in LibroIds, payload \in BookUpdateCampos :
       \/ IF get_book(b) # None
          THEN /\ resp' = [op |-> "actualizar_libro", status |-> 200]
               /\ Len(books') = Len(books)
               /\ \A i \in DOMAIN books :
                    IF books[i].id = b
                    THEN /\ books'[i].id = b
                         /\ payload.titulo = None => books'[i].titulo = books[i].titulo
                         /\ payload.autor = None => books'[i].autor = books[i].autor
                         /\ payload.categoria = None => books'[i].categoria = books[i].categoria
                         /\ payload.contenido = None => books'[i].contenido = books[i].contenido
                    ELSE books'[i] = books[i]
               /\ UNCHANGED <<users, reviews, tokens, _next_book_id, _next_user_id>>
          ELSE /\ resp' = [op |-> "actualizar_libro", status |-> 404]
               /\ UNCHANGED store
               /\ notified' = <<>>
       \/ \A token \in DOMAIN tokens :
            (Authenticated(token) /\ admin_required(Caller(token))) =>
              ~actualizar_libro(token, b, payload)]_vars

\* C15 witness: an update has just answered 200 in a catalog where a book
\* that is not at the position of its id has a new author and its old title,
\* while a review is stored
C15_Witness ==
  /\ resp = [op |-> "actualizar_libro", status |-> 200]
  /\ reviews # <<>>
  /\ \E i \in DOMAIN books :
       /\ books[i].id # i
       /\ books[i].autor = <<"Y">>
       /\ books[i].titulo = <<"D","u","n","e">>

\* C16: no book in the store has an empty title, author or category
C16_NoEmptyFields ==
  \A i \in DOMAIN books :
    /\ books[i].titulo # <<>>
    /\ books[i].autor # <<>>
    /\ books[i].categoria # <<>>

\* every stored review has a rating from 1 to 5 and a text that is not empty
ReviewsValid ==
  \A key \in DOMAIN reviews : \A k \in DOMAIN reviews[key] :
    /\ reviews[key][k].cal \in 1..5
    /\ reviews[key][k].texto # <<>>

\* the bodies that ReviewCreate refuses
InvalidBodies == {body \in ReviewBodies : ~ReviewCreate(body)}

\* C17: a review request whose rating is outside 1..5 or whose text is empty
\* answers 422, changes nothing and notifies no observer (stated as: a step
\* that is anything else was not such a request of an authenticated caller);
\* so every stored review has a rating from 1 to 5 and a text that is not
\* empty (true at the start and kept by every step that changes the reviews)
C17_ReviewsValidated ==
  /\ ReviewsValid
  /\ [][UNCHANGED reviews \/ ReviewsValid']_vars
  /\ [][\/ /\ resp' = [op |-> "ReviewCreate", status |-> 422]
           /\ UNCHANGED store
           /\ notified' = <<>>
        \/ \A token \in DOMAIN tokens, b \in LibroIds, body \in InvalidBodies :
             Authenticated(token) => ~POST_resenas(token, b, body)]_vars

\* C17 witness: a review was just refused with 422 while a valid one is stored
C17_Witness ==
  /\ resp = [op |-> "ReviewCreate", status |-> 422]
  /\ reviews # <<>>

\* the bodies that ReviewCreate accepts
ValidBodies == {body \in ReviewBodies : ReviewCreate(body)}

\* C18: with requests one at a time, a valid review request of an
\* authenticated caller on a book id that is not in the catalogue (never
\* created, or deleted) answers 404, changes nothing, notifies no observer and
\* leaves the reviews listed for that id empty
C18_ReviewOfMissingBook ==
  [][AnsweredBy("crear_resena") =>
     \A b \in LibroIds :
       get_book(b) = None =>
         \/ /\ resp'.status = 404
            /\ UNCHANGED store
            /\ notified' = <<>>
            /\ listar_resenas(b)' = <<>>
         \/ \A token \in DOMAIN tokens, body \in ValidBodies :
              Authenticated(token) => ~POST_resenas(token, b, body)]_vars

\* C18 witness: a review was just refused with 404 while one id was issued
\* and deleted, another was never issued, and a book that exists has a review
C18_Witness ==
  /\ resp = [op |-> "crear_resena", status |-> 404]
  /\ \E i \in DOMAIN issued : get_book(issued[i]) = None
  /\ \E b \in LibroIds : ~In(b, issued)
  /\ reviews # <<>>
  /\ \A b \in LibroIds : get_book(b) = None => listar_resenas(b) = <<>>

\* C19: a successful review request on book b appends exactly one review,
\* the caller's, at the end of the reviews listed for b and changes no other
\* book's reviews, whatever b already holds (also a review by the same user)
C19_ReviewAppended ==
  [][(AnsweredBy("crear_resena") /\ resp'.status = 201) =>
     \A b \in LibroIds, body \in ValidBodies, token \in DOMAIN tokens :
       (Authenticated(token) /\ get_book(b) # None) =>
         \/ /\ listar_resenas(b)' =
                 Append(listar_resenas(b),
                        [usuario_id |-> Caller(token).id,
                         texto |-> body.texto, cal |-> body.cal])
            /\ \A c \in LibroIds \ {b} : listar_resenas(c)' = listar_resenas(c)
         \/ ~POST_resenas(token, b, body)]_vars

\* C19 witness: a review was just accepted on a book that now lists two
\* different reviews by the same user
C19_Witness ==
  /\ resp = [op |-> "crear_resena", status |-> 201]
  /\ \E b \in LibroIds :
       /\ Len(listar_resenas(b)) >= 2
       /\ listar_resenas(b)[1].usuario_id = listar_resenas(b)[2].usuario_id
       /\ listar_resenas(b)[1] # listar_resenas(b)[2]

\* two characters that are the same letter, whatever their case
SameLetter(x, y) == x = y \/ x = LowerChar(y) \/ LowerChar(x) = y

\* two strings that are equal when case is ignored
EqualIgnoringCase(s, q) ==
  /\ Len(s) = Len(q)
  /\ \A k \in 1..Len(s) : SameLetter(s[k], q[k])

\* q occurs in s when case is ignored
ContainsIgnoringCase(s, q) ==
  \E i \in 0..(Len(s) - Len(q)) : \A k \in 1..Len(q) : SameLetter(s[i + k], q[k])

\* the k-th smallest member of a set of positions
Kth(S, k) == CHOOSE i \in S : Cardinality({j \in S : j < i}) = k - 1

\* r lists, in the order of the store, exactly the books at the positions in S
ListsExactly(r, S) ==
  /\ Len(r) = Cardinality(S)
  /\ \A k \in 1..Len(r) : r[k] = books[Kth(S, k)]

\* the book at position i has the wanted text in its title or its author
SearchMatches(i, search) ==
  \/ ContainsIgnoringCase(books[i].titulo, search[1])
  \/ ContainsIgnoringCase(books[i].autor, search[1])

\* C20 as stated: for every categoria and search, list_books returns in the
\* order of the store exactly the books whose category equals categoria
\* ignoring case, when a categoria is given, and whose title or author contains
\* search ignoring case, when a search is given
C20_ListBooksFilters ==
  \A categoria \in CategoriaFiltros, search \in SearchTextos :
    ListsExactly(list_books(categoria, search),
                 {i \in DOMAIN books :
                    /\ categoria # None =>
                         EqualIgnoringCase(books[i].categoria, categoria[1])
                    /\ search # None => SearchMatches(i, search)})

\* C20 amended: the same, where a categoria or a search that is the empty
\* string counts as not given; with neither the result is every book; the
\* default page of listar_libros is that result while it has at most 20
\* books; and a listing request changes nothing in the store
C20_ListBooksNonEmptyFilters ==
  /\ [](\A categoria \in CategoriaFiltros, search \in SearchTextos :
         LET expected ==
               {i \in DOMAIN books :
                  /\ (categoria # None /\ categoria[1] # <<>>) =>
                       EqualIgnoringCase(books[i].categoria, categoria[1])
                  /\ (search # None /\ search[1] # <<>>) =>
                       SearchMatches(i, search)}
         IN /\ ListsExactly(list_books(categoria, search), expected)
            /\ ListsExactly(listar_libros(1, 20, categoria, search), expected))
  /\ [](list_books(None, None) = books)
  /\ [][AnsweredBy("listar_libros") => UNCHANGED store /\ notified' = <<>>]_vars

\* C20 witness: a listing was just answered while the category filter finds
\* two books stored with different case, one before and one after books it
\* leaves out, and the search text narrows them to one through its author
C20_Witness ==
  /\ resp = [op |-> "listar_libros", status |-> 200]
  /\ Len(list_books(Some(<<"n","o","v","e","l","a">>), None)) = 2
  /\ list_books(Some(<<"n","o","v","e","l","a">>), None)[1].categoria
       # list_books(Some(<<"n","o","v","e","l","a">>), None)[2].categoria
  /\ Len(list_books(Some(<<"n","o","v","e","l","a">>), Some(<<"E","L">>))) = 1
  /\ Len(list_books(None, Some(<<"E","L">>))) > 1
  /\ Len(books) > Len(list_books(None, Some(<<"E","L">>)))

\* every token outside STORES["tokens"] resolves to no user, and every token
\* in it resolves to a user with the id it is mapped to
TokensResolve ==
  /\ \A token \in TokenInputs \ DOMAIN tokens : get_current_user(token) = None
  /\ \A token \in DOMAIN tokens :
       /\ Authenticated(token)
       /\ Caller(token).id = tokens[token]
       /\ \A i \in DOMAIN users : users[i].id = tokens[token] => users[i] = Caller(token)

\* C21: a token that is not in the token mapping resolves to no user, and
\* presenting it answers 401; the token a successful login adds resolves to
\* the user whose email and password were given; and every token already in
\* the mapping resolves after every step, a later login of the same user
\* included, to the user it resolved to before (same position, id and email)
C21_TokensResolveToTheirUser ==
  /\ TokensResolve
  /\ [][TokensResolve']_vars
  /\ [][AnsweredBy("get_current_user") =>
        (resp'.status = 401 /\ UNCHANGED store /\ notified' = <<>>)]_vars
  /\ [][\A token \in TokenInputs \ DOMAIN tokens :
          AnsweredBy("who_am_i") => ~who_am_i(token)]_vars
  /\ [][\A token \in DOMAIN tokens :
          /\ token \in DOMAIN tokens'
          /\ get_current_user(token)' = get_current_user(token)
          /\ users'[get_current_user(token)[1]].id = Caller(token).id
          /\ users'[get_current_user(token)[1]].email = Caller(token).email]_vars
  /\ [][(AnsweredBy("login") /\ resp'.status = 200) =>
        /\ Cardinality(DOMAIN tokens' \ DOMAIN tokens) = 1
        /\ \A payload \in LoginInputs :
             login(payload) =>
               \A token \in DOMAIN tokens' \ DOMAIN tokens :
                 /\ get_current_user(token)' # None
                 /\ lower(users'[get_current_user(token)'[1]].email) = lower(payload.email)
                 /\ users'[get_current_user(token)'[1]].password_hash
                      = _hash_password(payload.clave)]_vars

\* C21 witness: a login was just answered 200, the user it logged in holds
\* two tokens, and a token that was never minted resolves to no user
C21_Witness ==
  /\ resp = [op |-> "login", status |-> 200]
  /\ \E s, t \in DOMAIN tokens :
       /\ s # t
       /\ get_current_user(s) = get_current_user(t)
       /\ Caller(s).rol = "usuario"
  /\ get_current_user(Token(0)) = None

\* C22: the library of a user changes only in a step that is a successful
\* agregar_a_mi_biblioteca or quitar_de_mi_biblioteca made with a token of
\* that user; no such request made with a token of another user, and no
\* crear_libro, actualizar_libro or eliminar_libro, changes it
C22_LibraryChangedByOwnerOnly ==
  [][\A i \in DOMAIN users :
       \/ users'[i].biblioteca = users[i].biblioteca
       \/ /\ resp'.status = 200
          /\ resp'.op \in {"agregar_a_mi_biblioteca", "quitar_de_mi_biblioteca"}
          /\ \E token \in DOMAIN tokens : get_current_user(token) = Some(i)
          /\ \A token \in TokenInputs, b \in LibroIds :
               get_current_user(token) # Some(i) =>
                 /\ ~agregar_a_mi_biblioteca(token, b)
                 /\ ~quitar_de_mi_biblioteca(token, b)]_vars

\* C22 witness: the admin just deleted a book that an ordinary user still has
\* in a library, while the admin's own library holds another book
C22_Witness ==
  /\ resp = [op |-> "eliminar_libro", status |-> 204]
  /\ \E i \in DOMAIN users :
       /\ users[i].rol = "usuario"
       /\ \E k \in DOMAIN users[i].biblioteca : get_book(users[i].biblioteca[k]) = None
  /\ \E i \in DOMAIN users : users[i].rol = "admin" /\ users[i].biblioteca # <<>>

\* C25 as stated: every book id in every user's library is the id of a book
\* in the catalogue
C25_LibrariesHoldExistingBooks ==
  \A i \in DOMAIN users : \A k \in DOMAIN users[i].biblioteca :
    get_book(users[i].biblioteca[k]) # None

\* the ids in a library whose book is no longer in the catalogue
Stale(user) ==
  {b \in AllBookIds : In(b, user.biblioteca) /\ get_book(b) = None}

\* every book id in every library is one that was issued: a seeded id or one
\* add_book returned
LibrariesHoldIssuedIds ==
  \A i \in DOMAIN users : \A k \in DOMAIN users[i].biblioteca :
    \/ users[i].biblioteca[k] \in DOMAIN SeedBooks
    \/ In(users[i].biblioteca[k], issued)

\* C25 amended: every id in a library is the id of a book that exists or
\* existed; eliminar_libro leaves every library as it was, so the id of the
\* deleted book stays in the libraries that had it, while the listing of
\* such a library no longer shows the book; and quitar_de_mi_biblioteca of an
\* id whose book was deleted answers 200 and takes the id out of the caller's
\* library
C25_DeletedBooksStayInLibraries ==
  /\ LibrariesHoldIssuedIds
  /\ [][UNCHANGED users \/ LibrariesHoldIssuedIds']_vars
  /\ [][(AnsweredBy("eliminar_libro") /\ resp'.status = 204) =>
        /\ UNCHANGED users
        /\ \A i \in DOMAIN users : \A b \in AllBookIds :
             (In(b, users[i].biblioteca) /\ get_book(b) # None /\ get_book(b)' = None)
               => /\ b \in Stale(users[i])'
                  /\ \A k \in DOMAIN obtener_mi_biblioteca(users[i])' :
                       obtener_mi_biblioteca(users[i])'[k].id # b]_vars
  /\ [][AnsweredBy("quitar_de_mi_biblioteca") =>
        \A token \in DOMAIN tokens :
          Authenticated(token) =>
            \A b \in Stale(Caller(token)) :
              \/ /\ resp'.status = 200
                 /\ ~In(b, users'[get_current_user(token)[1]].biblioteca)
              \/ ~quitar_de_mi_biblioteca(token, b)]_vars

\* C25 witness: a user just removed from a library, with answer 200, the id of
\* a book that is not in the catalogue, while another library still holds it
C25_Witness ==
  /\ resp = [op |-> "quitar_de_mi_biblioteca", status |-> 200]
  /\ get_book(1) = None
  /\ \E i, j \in DOMAIN users :
       /\ ~In(1, users[i].biblioteca)
       /\ In(1, users[j].biblioteca)
       /\ \E token \in DOMAIN tokens : get_current_user(token) = Some(i)

\* C23: until the first request is served the store holds one user, the admin
\* with the fixed email, and the seeded books with ids 1 to N in order, with
\* no review and no token; the first id add_book returns is N + 1, and the
\* first registered user has the id after the admin's
C23_Bootstrap ==
  /\ resp.op = "import" =>
       /\ Len(users) = 1
       /\ users[1].rol = "admin"
       /\ users[1].email = AdminEmail
       /\ users[1].password_hash = _hash_password("admin123")
       /\ users[1].biblioteca = <<>>
       /\ Len(books) = Len(initial_books)
       /\ \A i \in DOMAIN books :
            /\ books[i].id = i
            /\ books[i].titulo = initial_books[i].titulo
       /\ reviews = <<>>
       /\ tokens = <<>>
  /\ issued # <<>> => issued[1] = Len(initial_books) + 1
  /\ Len(users) >= 2 => users[2].id = users[1].id + 1

\* C23 witness: the first book was created and the first user was just registered
C23_Witness ==
  /\ resp = [op |-> "registrar_usuario", status |-> 201]
  /\ Len(issued) = 1
  /\ get_book(issued[1]) # None
  /\ Len(users) = 2

\* C26 as stated: in every state the seeded admin is the only user whose rol
\* is admin
C26_SeededAdminIsOnlyAdmin ==
  \A i \in DOMAIN users :
    users[i].rol = "admin" =>
      /\ i = 1
      /\ users[i].id = admin_default.id
      /\ users[i].email = admin_default.email

\* C24 as stated: with the membership check and the append as separate steps
\* of concurrent agregar_a_mi_biblioteca requests, no library ever holds a
\* book id twice, and once a quitar_de_mi_biblioteca of a book has answered
\* 200 with no other library request in flight the book is not in the library
C24_ConcurrentMembershipUnique ==
  /\ \A i \in DOMAIN users :
       \A j, k \in DOMAIN users[i].biblioteca :
         j # k => users[i].biblioteca[j] # users[i].biblioteca[k]
  /\ \A t \in Threads :
       (/\ \A s \in Threads : pc[s] = "idle"
        /\ loc[t].op = "quitar_de_mi_biblioteca"
        /\ loc[t].status = 200
        /\ \A s \in Threads \ {t} : loc[s].op # "agregar_a_mi_biblioteca")
         => ~In(loc[t].val, users[loc[t].payload.usuario].biblioteca)

\* the step in which the facade method at this label calls notify and returns
Publishes(label) == pc[Worker] = label /\ pc'[Worker] = "idle"

\* C27: when the observers are invoked the mutation is already in the store:
\* for a created book the book, as published, is in the catalogue; for a
\* registered user a user with the published id, email and rol is stored; for
\* an added review the review is the last one listed for its book; for a
\* deleted book neither the book nor any review of it is left
C27_PublishedAfterCommit ==
  [][/\ Publishes("add_book_notify") =>
          /\ notified' # <<>>
          /\ \A k \in DOMAIN notified' :
               /\ notified'[k].event = "LIBRO_CREADO"
               /\ get_book(notified'[k].data.id) = Some(notified'[k].data)
     /\ Publishes("register_user_notify") =>
          /\ notified' # <<>>
          /\ \A k \in DOMAIN notified' :
               /\ notified'[k].event = "USUARIO_REGISTRADO"
               /\ \E i \in DOMAIN users :
                    /\ users[i].id = notified'[k].data.id
                    /\ users[i].email = notified'[k].data.email
                    /\ users[i].rol = notified'[k].data.rol
     /\ Publishes("add_review_notify") =>
          /\ notified' # <<>>
          /\ \A k \in DOMAIN notified' :
               LET data == notified'[k].data
                   listed == listar_resenas(data.libro_id)
               IN /\ notified'[k].event = "RESEÑA_AGREGADA"
                  /\ listed # <<>>
                  /\ listed[Len(listed)] = [usuario_id |-> data.usuario_id,
                                            texto |-> data.texto, cal |-> data.cal]
     /\ Publishes("delete_book_notify") =>
          /\ notified' # <<>>
          /\ \A k \in DOMAIN notified' :
               /\ notified'[k].event = "LIBRO_ELIMINADO"
               /\ get_book(notified'[k].data.id) = None
               /\ listar_resenas(notified'[k].data.id) = <<>>]_vars

\* C27 witness: the deletion of a seeded book was just published, after a
\* book was created and reviewed and a user was registered
C27_Witness ==
  /\ pc[Worker] = "idle"
  /\ loc[Worker].op = "eliminar_libro"
  /\ loc[Worker].status = 204
  /\ notified # <<>>
  /\ notified[1].event = "LIBRO_ELIMINADO"
  /\ notified[1].data.id = 1
  /\ reviews # <<>>
  /\ Len(issued) >= 1
  /\ Len(users) >= 2

====
